---------------------------- MODULE Spec2Model ----------------------------
(***************************************************************************)
(* A model of pysar/radar2geo.py: the command line tool that resamples     *)
(* radar coded files into geo coordinates.                                 *)
(*                                                                         *)
(* Python values are tagged records (field ty): None, int, float, str,     *)
(* tuple.  A float is an exact rational num/den with den > 0, and NaN is   *)
(* the float with den = 0.  A str is a sequence of one-character strings,  *)
(* so that str(), int(), float(), lower(), split() and `in` are computed   *)
(* character by character.  A file path is a sequence of path components.  *)
(***************************************************************************)
EXTENDS Integers, Sequences, FiniteSets, TLC

VARIABLES pc, world, inps, res_obj, k, cur, trace, raised

vars == <<pc, world, inps, res_obj, k, cur, trace, raised>>

(***************************************************************************)
(* Bounds of the model.                                                    *)
(***************************************************************************)
\* input files on the command line: 0 .. MaxFiles
MaxFiles == 2
\* output grid: length and width range over 1 .. MaxDim
MaxDim == 2
\* latitudes / longitudes range over -MaxDeg .. MaxDeg, in half degrees
MaxDeg == 1
\* digits str() writes after the decimal point of a float
MaxFrac == 3

(***************************************************************************)
(* Python values.                                                          *)
(***************************************************************************)
None == [ty |-> "None"]

PyInt(n) == [ty |-> "int", num |-> n]

PyStr(s) == [ty |-> "str", txt |-> s]

PyTuple(s) == [ty |-> "tuple", items |-> s]

Abs(n) == IF n < 0 THEN -n ELSE n

RECURSIVE GCD(_, _)
GCD(a, b) == IF b = 0 THEN a ELSE GCD(b, a % b)

\* the float n/d in lowest terms, d # 0
PyFloat(n, d) ==
  LET g == GCD(Abs(n), Abs(d))
      s == IF d < 0 THEN -1 ELSE 1
  IN  [ty |-> "float", num |-> s * (n \div g), den |-> s * (d \div g)]

NaN == [ty |-> "float", num |-> 0, den |-> 0]

isnan(x) == x.ty = "float" /\ x.den = 0

\* numerator and denominator of an int or a float
Num(x) == x.num

Den(x) == IF x.ty = "int" THEN 1 ELSE x.den

Sub(a, b) ==
  IF isnan(a) \/ isnan(b) THEN NaN
  ELSE PyFloat(Num(a) * Den(b) - Num(b) * Den(a), Den(a) * Den(b))

\* sums and products, for the properties of the output grid
Add(a, b) ==
  IF isnan(a) \/ isnan(b) THEN NaN
  ELSE PyFloat(Num(a) * Den(b) + Num(b) * Den(a), Den(a) * Den(b))

Mul(a, b) ==
  IF isnan(a) \/ isnan(b) THEN NaN
  ELSE PyFloat(Num(a) * Num(b), Den(a) * Den(b))

\* Python 3 true division; the caller checks that b is not zero
TrueDiv(a, b) ==
  IF isnan(a) \/ isnan(b) THEN NaN
  ELSE PyFloat(Num(a) * Den(b), Num(b) * Den(a))

IsZero(x) == ~isnan(x) /\ Num(x) = 0

\* int(x) of a finite float: truncation toward zero
IntTrunc(x) ==
  IF x.num >= 0 THEN x.num \div x.den ELSE -((-x.num) \div x.den)

\* np.rint: the nearest integer, a tie going to the even one
rint(x) ==
  LET q == x.num \div x.den
      r == x.num % x.den
  IN  IF 2 * r < x.den THEN q
      ELSE IF 2 * r > x.den THEN q + 1
      ELSE IF q % 2 = 0 THEN q ELSE q + 1


(***************************************************************************)
(* Python strings.                                                         *)
(***************************************************************************)
Digits == <<"0", "1", "2", "3", "4", "5", "6", "7", "8", "9">>

Upper == <<"A", "B", "C", "D", "E", "F", "G", "H", "I", "J", "K", "L", "M",
           "N", "O", "P", "Q", "R", "S", "T", "U", "V", "W", "X", "Y", "Z">>

LowerCase == <<"a", "b", "c", "d", "e", "f", "g", "h", "i", "j", "k", "l", "m",
               "n", "o", "p", "q", "r", "s", "t", "u", "v", "w", "x", "y", "z">>

IsDigit(c) == \E j \in 1..10 : Digits[j] = c

DigitVal(c) == (CHOOSE j \in 1..10 : Digits[j] = c) - 1

AllDigits(s) == \A j \in 1..Len(s) : IsDigit(s[j])

LowerChar(c) ==
  IF \E j \in 1..26 : Upper[j] = c
  THEN LowerCase[CHOOSE j \in 1..26 : Upper[j] = c]
  ELSE c

\* str.lower()
Lower(s) == [j \in 1..Len(s) |-> LowerChar(s[j])]

\* sub in s
Contains(s, sub) ==
  \E j \in 0..(Len(s) - Len(sub)) : SubSeq(s, j + 1, j + Len(sub)) = sub

RECURSIVE Strip(_)
\* str.strip() of blanks
Strip(s) ==
  IF s = <<>> THEN s
  ELSE IF Head(s) = " " THEN Strip(Tail(s))
  ELSE IF s[Len(s)] = " " THEN Strip(SubSeq(s, 1, Len(s) - 1))
  ELSE s

RECURSIVE Split(_, _)
\* str.split(sep) for a one-character separator
Split(s, sep) ==
  IF \A j \in 1..Len(s) : s[j] # sep THEN <<s>>
  ELSE LET p == CHOOSE j \in 1..Len(s) :
                  s[j] = sep /\ \A h \in 1..(j - 1) : s[h] # sep
       IN  <<SubSeq(s, 1, p - 1)>> \o Split(SubSeq(s, p + 1, Len(s)), sep)

RECURSIVE ParseNat(_)
ParseNat(s) ==
  IF s = <<>> THEN 0
  ELSE ParseNat(SubSeq(s, 1, Len(s) - 1)) * 10 + DigitVal(s[Len(s)])

RECURSIVE Pow10(_)
Pow10(n) == IF n = 0 THEN 1 ELSE 10 * Pow10(n - 1)

RECURSIVE NatStr(_)
NatStr(n) ==
  IF n < 10 THEN <<Digits[n + 1]>>
  ELSE NatStr(n \div 10) \o <<Digits[(n % 10) + 1]>>

ValueError == [ty |-> "ValueError"]

\* digits, or digits '.' digits with a digit on one side at least
ParseUnsigned(s) ==
  IF \A j \in 1..Len(s) : s[j] # "."
  THEN IF s # <<>> /\ AllDigits(s) THEN PyFloat(ParseNat(s), 1) ELSE ValueError
  ELSE LET p  == CHOOSE j \in 1..Len(s) : s[j] = "."
           ip == SubSeq(s, 1, p - 1)
           fp == SubSeq(s, p + 1, Len(s))
       IN  IF AllDigits(ip) /\ AllDigits(fp) /\ Len(ip) + Len(fp) > 0
           THEN PyFloat(ParseNat(ip \o fp), Pow10(Len(fp)))
           ELSE ValueError

\* float(s) of a str: blanks stripped, an optional sign, then 'nan' in any
\* letter case or a decimal number; anything else raises ValueError
\* (exponents and infinities are not among the inputs of the model)
ParseFloat(s) ==
  LET t    == Strip(s)
      neg  == t # <<>> /\ Head(t) = "-"
      body == IF t # <<>> /\ Head(t) \in {"-", "+"} THEN Tail(t) ELSE t
      u    == ParseUnsigned(body)
  IN  IF Lower(body) = <<"n", "a", "n">> THEN NaN
      ELSE IF u = ValueError THEN ValueError
      ELSE IF neg THEN PyFloat(-u.num, u.den) ELSE u

\* int(s) of a str: blanks stripped, an optional sign, then digits
ParseInt(s) ==
  LET t    == Strip(s)
      neg  == t # <<>> /\ Head(t) = "-"
      body == IF t # <<>> /\ Head(t) \in {"-", "+"} THEN Tail(t) ELSE t
  IN  IF body = <<>> \/ ~AllDigits(body) THEN ValueError
      ELSE PyInt(IF neg THEN -ParseNat(body) ELSE ParseNat(body))

\* str(n) of an int
IntStr(n) == IF n < 0 THEN <<"-">> \o NatStr(-n) ELSE NatStr(n)

RECURSIVE FracStr(_, _, _)
\* the decimal digits of r/d, 0 <= r < d, at most n of them
FracStr(r, d, n) ==
  IF r = 0 \/ n = 0 THEN <<>>
  ELSE <<Digits[((10 * r) \div d) + 1]>> \o FracStr((10 * r) % d, d, n - 1)

\* str(x) of a float: the shortest decimal that reads back as x (the model's
\* floats have at most MaxFrac decimals); 'nan' for NaN
FloatStr(x) ==
  IF isnan(x) THEN <<"n", "a", "n">>
  ELSE LET a  == Abs(x.num)
           fr == FracStr(a % x.den, x.den, MaxFrac)
       IN  (IF x.num < 0 THEN <<"-">> ELSE <<>>) \o NatStr(a \div x.den)
             \o <<".">> \o (IF fr = <<>> THEN <<"0">> ELSE fr)

\* str(x)
str(x) ==
  IF x.ty = "int" THEN PyStr(IntStr(x.num))
  ELSE IF x.ty = "float" THEN PyStr(FloatStr(x))
  ELSE x

\* float(x)
float(x) ==
  IF x.ty = "str" THEN ParseFloat(x.txt)
  ELSE IF x.ty = "int" THEN PyFloat(x.num, 1)
  ELSE x


(***************************************************************************)
(* Python dicts: functions from keys (strings) to values.                  *)
(***************************************************************************)
Put(d, key, v) ==
  [x \in (DOMAIN d) \cup {key} |-> IF x = key THEN v ELSE d[x]]

\* d.pop(key) for a key of d
Pop(d, key) == [x \in (DOMAIN d) \ {key} |-> d[x]]

\* try: d.pop(k1); d.pop(k2)  except: pass
\* the first pop that raises KeyError leaves the try block
TryPopBoth(d, k1, k2) ==
  IF k1 \notin DOMAIN d THEN d
  ELSE LET d1 == Pop(d, k1)
       IN  IF k2 \notin DOMAIN d1 THEN d1 ELSE Pop(d1, k2)

(***************************************************************************)
(* update_attribute(atr_in, inps): the metadata of the geocoded file.      *)
(* outShape is inps.outShape, SNWE is inps.SNWE (a tuple of four floats)   *)
(* and glob is what ut.radar2glob answers for the reference pixel, the     *)
(* pair (ref_lat, ref_lon).  The result is [raised, atr]: raised is "None" *)
(* when the function returns atr, else the exception that leaves it.       *)
(***************************************************************************)
\* a variant that takes the first two dimensions
FirstTwo(outShape) == <<outShape[1], outShape[2]>>

\* length, width = inps.outShape[-2:]
LastTwo(outShape) == <<outShape[Len(outShape) - 1], outShape[Len(outShape)]>>

\* lines 130-137
GridAttributes(atr_in, outShape, SNWE) ==
  LET length == LastTwo(outShape)[1]
      width  == LastTwo(outShape)[2]
      a1 == Put(atr_in, "LENGTH", PyInt(length))
      a2 == Put(a1, "WIDTH", PyInt(width))
      a3 == Put(a2, "Y_FIRST", SNWE.items[2])
      a4 == Put(a3, "X_FIRST", SNWE.items[3])
      a5 == Put(a4, "Y_STEP",
                TrueDiv(Sub(SNWE.items[1], SNWE.items[2]), PyInt(length)))
      a6 == Put(a5, "X_STEP",
                TrueDiv(Sub(SNWE.items[4], SNWE.items[3]), PyInt(width)))
      a7 == Put(a6, "Y_UNIT", PyStr(<<"d", "e", "g", "r", "e", "e", "s">>))
  IN  Put(a7, "X_UNIT", PyStr(<<"d", "e", "g", "r", "e", "e", "s">>))

\* a variant that truncates instead of rounding
RefIndexTrunc(ref, first, step) ==
  IntTrunc(TrueDiv(Sub(ref, float(first)), float(step)))

\* lines 144-145: int(np.rint((ref - first) / step))
RefIndex(ref, first, step) ==
  rint(TrueDiv(Sub(ref, float(first)), float(step)))

\* lines 144-149
SetReference(atr, glob) ==
  LET ref_y == RefIndex(glob[1], atr["Y_FIRST"], atr["Y_STEP"])
      ref_x == RefIndex(glob[2], atr["X_FIRST"], atr["X_STEP"])
      a1 == Put(atr, "REF_LAT", str(glob[1]))
      a2 == Put(a1, "REF_LON", str(glob[2]))
      a3 == Put(a2, "REF_Y", str(PyInt(ref_y)))
  IN  Put(a3, "REF_X", str(PyInt(ref_x)))

\* lines 154-163
DropReference(atr) ==
  TryPopBoth(TryPopBoth(atr, "REF_Y", "REF_X"), "REF_LAT", "REF_LON")

update_attribute(atr_in, outShape, SNWE, glob) ==
  LET atr == GridAttributes(atr_in, outShape, SNWE)
  IN  IF "REF_Y" \notin DOMAIN atr
      THEN [raised |-> "None", atr |-> atr]
      ELSE IF ParseInt(atr["REF_Y"].txt) = ValueError
      THEN [raised |-> "ValueError", atr |-> atr]
      ELSE IF "REF_X" \notin DOMAIN atr
      THEN [raised |-> "KeyError", atr |-> atr]
      ELSE IF ParseInt(atr["REF_X"].txt) = ValueError
      THEN [raised |-> "ValueError", atr |-> atr]
      ELSE IF ~isnan(glob[1]) /\ ~isnan(glob[2])
      THEN \* a zero step divides by zero: ZeroDivisionError with Python
           \* floats, OverflowError or ValueError out of int() with numpy's
           IF IsZero(atr["Y_STEP"]) \/ IsZero(atr["X_STEP"])
           THEN [raised |-> "DivisionByZero", atr |-> atr]
           ELSE [raised |-> "None", atr |-> SetReference(atr, glob)]
      ELSE [raised |-> "None", atr |-> DropReference(atr)]


(***************************************************************************)
(* More Python values: lists, file paths, truth.                           *)
(***************************************************************************)
PyList(s) == [ty |-> "list", items |-> s]

\* a file name, as the sequence of its path components
PyPath(parts) == [ty |-> "str", parts |-> parts]

\* bool(v)
Truthy(v) ==
  CASE v.ty = "None"  -> FALSE
    [] v.ty = "str"   -> IF "txt" \in DOMAIN v THEN v.txt # <<>>
                         ELSE v.parts # <<>>
    [] v.ty = "list"  -> v.items # <<>>
    [] v.ty = "tuple" -> v.items # <<>>
    [] v.ty = "int"   -> v.num # 0
    [] v.ty = "float" -> v.num # 0 \/ v.den = 0

\* os.path.join(os.path.dirname(infile), 'geo_' + os.path.basename(infile))
GeoName(infile) ==
  PyPath(SubSeq(infile.parts, 1, Len(infile.parts) - 1)
           \o <<"geo_" \o infile.parts[Len(infile.parts)]>>)

NEAREST == <<"n", "e", "a", "r", "e", "s", "t">>

BILINEAR == <<"b", "i", "l", "i", "n", "e", "a", "r">>

(***************************************************************************)
(* create_parser and cmd_line_parse.                                       *)
(***************************************************************************)
\* choices={'nearest', 'bilinear'}
InterpChoices == {PyStr(NEAREST), PyStr(BILINEAR)}

\* the namespace of a command line that gives no option
ParserDefaults ==
  [file |-> None, lookupFile |-> None, templateFile |-> None, SNWE |-> None,
   latStep |-> None, lonStep |-> None, interpMethod |-> PyStr(NEAREST),
   fillValue |-> NaN, outfile |-> None]

\* parser.parse_args: cmdline maps the destinations the command line gives
\* to their converted values; a value outside an option's choices ends the
\* process with argparse's usage error
parse_args(cmdline) ==
  IF "interpMethod" \in DOMAIN cmdline
       /\ cmdline["interpMethod"] \notin InterpChoices
  THEN [exit |-> "usage error", ns |-> ParserDefaults]
  ELSE [exit |-> "None",
        ns |-> [x \in DOMAIN ParserDefaults |->
                  IF x \in DOMAIN cmdline THEN cmdline[x]
                  ELSE ParserDefaults[x]]]

\* lines 87-89 and 120-122
WithLaloStep(ns) ==
  Put(ns, "laloStep",
      IF ns["latStep"] = None \/ ns["lonStep"] = None THEN None
      ELSE PyList(<<ns["latStep"], ns["lonStep"]>>))

NoInputFile == "ERROR: no input file found!"

NoLookupTable == "ERROR: No lookup table found! Can not geocode without it."

\* a variant that looks for the lookup table before the input files
cmd_line_parse_lookup_first(cmdline, found, lookup) ==
  LET p  == parse_args(cmdline)
      i1 == Put(p.ns, "lookupFile", lookup)
      i2 == Put(i1, "file", found)
  IN  IF p.exit # "None" THEN [exit |-> p.exit, inps |-> p.ns, calls |-> <<>>]
      ELSE IF ~Truthy(lookup)
      THEN [exit |-> NoLookupTable, inps |-> i1, calls |-> <<"get_lookup_file">>]
      ELSE IF ~Truthy(found)
      THEN [exit |-> NoInputFile, inps |-> i2,
            calls |-> <<"get_lookup_file", "get_file_list">>]
      ELSE [exit |-> "None",
            inps |-> WithLaloStep(
                       IF Truthy(i2["SNWE"])
                       THEN Put(i2, "SNWE", PyTuple(i2["SNWE"].items)) ELSE i2),
            calls |-> <<"get_lookup_file", "get_file_list">>]

\* cmd_line_parse: found is what ut.get_file_list answers, lookup what
\* ut.get_lookup_file answers.  The result is [exit, inps, calls]: exit is
\* "None" or the message of sys.exit, calls the collaborators called
cmd_line_parse(cmdline, found, lookup) ==
  LET p  == parse_args(cmdline)
      i1 == Put(p.ns, "file", found)
      i2 == Put(i1, "lookupFile", lookup)
  IN  IF p.exit # "None" THEN [exit |-> p.exit, inps |-> p.ns, calls |-> <<>>]
      ELSE IF ~Truthy(found)
      THEN [exit |-> NoInputFile, inps |-> i1, calls |-> <<"get_file_list">>]
      ELSE IF ~Truthy(lookup)
      THEN [exit |-> NoLookupTable, inps |-> i2,
            calls |-> <<"get_file_list", "get_lookup_file">>]
      ELSE [exit |-> "None",
            inps |-> WithLaloStep(
                       IF Truthy(i2["SNWE"])
                       THEN Put(i2, "SNWE", PyTuple(i2["SNWE"].items)) ELSE i2),
            calls |-> <<"get_file_list", "get_lookup_file">>]

(***************************************************************************)
(* read_template2inps.                                                     *)
(***************************************************************************)
TemplatePrefix == "pysar.geocode."

\* line 109: tuple([float(i) for i in value.split(',')])
ParseSNWE(txt) ==
  LET parts == Split(txt, ",")
      nums  == [j \in 1..Len(parts) |-> ParseFloat(parts[j])]
  IN  IF \E j \in 1..Len(parts) : nums[j] = ValueError THEN ValueError
      ELSE PyTuple(nums)

\* a variant of line 115 that forgets value.lower()
CoerceFillValueCaseSensitive(value) ==
  IF Contains(value.txt, <<"n", "a", "n">>) THEN NaN
  ELSE ParseFloat(value.txt)

\* lines 115-118
CoerceFillValue(value) ==
  IF Contains(Lower(value.txt), <<"n", "a", "n">>) THEN NaN
  ELSE ParseFloat(value.txt)

\* lines 108-118: the new value of option key for a template value that is
\* true; old is the option's value so far
Coerce(key, value, old) ==
  IF key = "SNWE" THEN ParseSNWE(value.txt)
  ELSE IF key \in {"latStep", "lonStep"} THEN ParseFloat(value.txt)
  ELSE IF key \in {"interpMethod"} THEN value
  ELSE IF key = "fillValue" THEN CoerceFillValue(value)
  ELSE old

\* lines 104-107
TemplateSets(key, template) ==
  (TemplatePrefix \o key) \in DOMAIN template
    /\ Truthy(template[TemplatePrefix \o key])

\* read_template2inps: template is what readfile.read_template and
\* ut.check_template_auto_value answer for the template file.  The result
\* is [raised, inps]
read_template2inps(template, ns) ==
  LET new == [x \in DOMAIN ns |->
                IF TemplateSets(x, template)
                THEN Coerce(x, template[TemplatePrefix \o x], ns[x])
                ELSE ns[x]]
  IN  IF \E x \in DOMAIN ns : new[x] = ValueError
      THEN [raised |-> "ValueError", inps |-> ns]
      ELSE [raised |-> "None", inps |-> WithLaloStep(new)]


(***************************************************************************)
(* The inputs of a run of main: the command line, and what the             *)
(* collaborators (ut, readfile, resample) answer.                          *)
(***************************************************************************)
Half(n) == PyFloat(n, 2)

Deg(n) == PyFloat(n, 1)

Chars3(a, b, c) == PyStr(<<a, b, c>>)

FileNames == {PyPath(<<"velocity.h5">>), PyPath(<<"data", "timeseries.h5">>)}

\* what ut.get_file_list can answer
FileLists ==
  {PyList(f) : f \in UNION {[1..n -> FileNames] : n \in 0..MaxFiles}}

LookupFile == PyPath(<<"geometryRadar.h5">>)

TemplateFile == PyPath(<<"pysarApp_template.txt">>)

\* -b S N W E as argparse converts it: a list of four floats
BoxList == PyList(<<Deg(-1), Deg(1), Deg(0), Deg(1)>>)

\* the options a command line of the model can give, and their values
CmdDests == {"templateFile", "SNWE", "latStep", "lonStep", "outfile"}

CmdValue(dest) ==
  CASE dest = "templateFile" -> TemplateFile
    [] dest = "SNWE"         -> BoxList
    [] dest = "latStep"      -> Half(1)
    [] dest = "lonStep"      -> PyFloat(1, 4)
    [] dest = "outfile"      -> PyList(<<PyPath(<<"out.h5">>)>>)

\* -i as typed; 'cubic' is outside the parser's choices
InterpTyped == {PyStr(NEAREST), PyStr(BILINEAR), Chars3("c", "u", "b")}

\* the template files of the model, after ut.check_template_auto_value
Templates ==
  { <<>>,
    ("pysar.geocode.interpMethod" :> PyStr(BILINEAR)),
    ("pysar.geocode.interpMethod" :> Chars3("c", "u", "b")),
    ("pysar.geocode.latStep" :> Chars3("0", ".", "2"))
      @@ ("pysar.geocode.lonStep" :> None),
    ("pysar.geocode.latStep" :> None)
      @@ ("pysar.geocode.lonStep" :> Chars3("0", ".", "1")),
    ("pysar.geocode.latStep" :> Chars3("0", ".", "2"))
      @@ ("pysar.geocode.lonStep" :> Chars3("0", ".", "1"))
      @@ ("pysar.geocode.fillValue" :> Chars3("a", "b", "c")) }

\* what res_obj.get_geometry_definition can answer
Geometries ==
  { [src_def |-> "src_def", dest_def |-> [length |-> MaxDim, width |-> 1],
     SNWE |-> PyTuple(<<Deg(-1), Deg(1), Deg(0), Deg(1)>>)],
    [src_def |-> "src_def", dest_def |-> [length |-> 1, width |-> MaxDim],
     SNWE |-> PyTuple(<<Deg(0), Deg(1), Deg(-1), Deg(1)>>)] }

\* readfile.read(infile): the shape of the data and the metadata
FileShape(infile) ==
  IF Len(infile.parts) = 1 THEN <<3, 4>> ELSE <<5, 3, 4>>

FileAtr(infile) ==
  IF Len(infile.parts) = 1
  THEN [LENGTH |-> PyStr(<<"3">>), WIDTH |-> PyStr(<<"4">>),
        REF_Y |-> PyStr(<<"1">>), REF_X |-> PyStr(<<"2">>)]
  ELSE [LENGTH |-> PyStr(<<"3">>), WIDTH |-> PyStr(<<"4">>)]

\* ut.radar2glob for the reference pixel
GlobOf(lookup) == <<Half(1), Half(1)>>


(***************************************************************************)
(* main, step by step.  pc is the statement main is at; trace lists the    *)
(* calls made to the collaborators, in order.                              *)
(***************************************************************************)
Object(x) == [ty |-> "object", of |-> x]

\* lines 202-203: the arguments main constructs the resampler with
resample_args(ns) ==
  [lookupFile |-> ns["lookupFile"], dataFile |-> ns["file"].items[1],
   SNWE |-> ns["SNWE"], laloStep |-> ns["latStep"]]

\* line 207: the outfile argument of the call geocode_file(infile, inps, res_obj)
OutfileArg(ns, n) == None

\* lines 187-188
OutputName(infile, outfile) ==
  IF ~Truthy(outfile) THEN GeoName(infile) ELSE outfile

\* np.moveaxis(data, 0, -1) and np.moveaxis(geo_data, -1, 0), on the shape
MoveFirstToLast(shape) ==
  IF Len(shape) = 3 THEN <<shape[2], shape[3], shape[1]>> ELSE shape

MoveLastToFirst(shape) ==
  IF Len(shape) = 3 THEN <<shape[3], shape[1], shape[2]>> ELSE shape

\* the shape res_obj.resample answers: the rows and columns of the
\* destination grid, then the data's trailing dimensions
ResampledShape(shape, dest_def) ==
  <<dest_def.of.length, dest_def.of.width>> \o SubSeq(shape, 3, Len(shape))

\* a variant of the loop that skips every other file
SkipFile(n) == n + 2

\* line 206: the file after the n-th one
NextFile(n) == n + 1

NoFile == [infile |-> None, shape |-> <<>>, atr |-> <<>>]

Init ==
  /\ pc = "cmd_line_parse"
  /\ \E given \in SUBSET CmdDests, typed \in SUBSET InterpTyped,
        found \in FileLists, lookup \in {None, LookupFile},
        template \in Templates, geometry \in Geometries :
       /\ Cardinality(typed) <= 1
       /\ world = [cmdline  |-> [d \in given |-> CmdValue(d)]
                                  @@ [d \in {"interpMethod" : t \in typed} |->
                                        CHOOSE t \in typed : TRUE],
                   found    |-> found,
                   lookup   |-> lookup,
                   template |-> template,
                   geometry |-> geometry]
  /\ inps = <<>>
  /\ res_obj = None
  /\ k = 0
  /\ cur = NoFile
  /\ trace = <<>>
  /\ raised = "None"

\* line 196
CmdLineParse ==
  /\ pc = "cmd_line_parse"
  /\ LET r == cmd_line_parse(world.cmdline, world.found, world.lookup)
     IN  /\ inps' = r.inps
         /\ trace' = [j \in 1..Len(r.calls) |-> [op |-> r.calls[j]]]
         /\ raised' = r.exit
         /\ pc' = IF r.exit # "None" THEN "exit"
                  ELSE IF Truthy(r.inps["templateFile"])
                  THEN "read_template2inps" ELSE "resample"
  /\ UNCHANGED <<world, res_obj, k, cur>>

\* lines 197-198
ReadTemplate ==
  /\ pc = "read_template2inps"
  /\ LET r == read_template2inps(world.template, inps)
     IN  /\ inps' = r.inps
         /\ raised' = r.raised
         /\ pc' = IF r.raised # "None" THEN "raised" ELSE "resample"
  /\ trace' = Append(trace, [op |-> "read_template",
                             file |-> inps["templateFile"]])
  /\ UNCHANGED <<world, res_obj, k, cur>>

\* lines 202-203
ConstructResampler ==
  /\ pc = "resample"
  /\ res_obj' = Object(resample_args(inps))
  /\ trace' = Append(trace, [op |-> "resample", args |-> resample_args(inps)])
  /\ pc' = "get_geometry_definition"
  /\ UNCHANGED <<world, inps, k, cur, raised>>

\* line 204
GetGeometry ==
  /\ pc = "get_geometry_definition"
  /\ inps' = Put(Put(Put(inps, "src_def", Object(world.geometry.src_def)),
                     "dest_def", Object(world.geometry.dest_def)),
                 "SNWE", world.geometry.SNWE)
  /\ trace' = Append(trace, [op |-> "get_geometry_definition"])
  /\ k' = 1
  /\ pc' = "read"
  /\ UNCHANGED <<world, res_obj, cur, raised>>

\* geocode_file, lines 172-174
GeocodeRead ==
  /\ pc = "read"
  /\ LET infile == inps["file"].items[k]
     IN  /\ cur' = [infile |-> infile,
                    shape  |-> MoveFirstToLast(FileShape(infile)),
                    atr    |-> FileAtr(infile)]
         /\ trace' = Append(trace, [op |-> "read", infile |-> infile])
  /\ pc' = "resample_data"
  /\ UNCHANGED <<world, inps, res_obj, k, raised>>

\* geocode_file, lines 177-180
GeocodeResample ==
  /\ pc = "resample_data"
  /\ cur' = [cur EXCEPT !.shape =
               MoveLastToFirst(ResampledShape(cur.shape, inps["dest_def"]))]
  /\ trace' = Append(trace, [op |-> "resample_data", infile |-> cur.infile,
                             src_def |-> inps["src_def"],
                             dest_def |-> inps["dest_def"],
                             interpMethod |-> inps["interpMethod"],
                             fillValue |-> inps["fillValue"]])
  /\ pc' = "update_attribute"
  /\ UNCHANGED <<world, inps, res_obj, k, raised>>

\* geocode_file, lines 183-184
GeocodeUpdate ==
  /\ pc = "update_attribute"
  /\ LET r == update_attribute(cur.atr, cur.shape, inps["SNWE"],
                               GlobOf(inps["lookupFile"]))
     IN  /\ cur' = [cur EXCEPT !.atr = r.atr]
         /\ raised' = r.raised
         /\ pc' = IF r.raised # "None" THEN "raised" ELSE "write"
  /\ inps' = Put(inps, "outShape", Object(cur.shape))
  /\ trace' = Append(trace, [op |-> "update_attribute", infile |-> cur.infile,
                             SNWE |-> inps["SNWE"]])
  /\ UNCHANGED <<world, res_obj, k>>

\* geocode_file, lines 187-191, and the loop of main, line 206
GeocodeWrite ==
  /\ pc = "write"
  /\ trace' = Append(trace,
                [op |-> "write", infile |-> cur.infile,
                 outfile |-> OutputName(cur.infile, OutfileArg(inps, k)),
                 atr |-> cur.atr])
  /\ k' = NextFile(k)
  /\ pc' = IF NextFile(k) > Len(inps["file"].items) THEN "done" ELSE "read"
  /\ cur' = NoFile
  /\ UNCHANGED <<world, inps, res_obj, raised>>

Next ==
  \/ CmdLineParse
  \/ ReadTemplate
  \/ ConstructResampler
  \/ GetGeometry
  \/ GeocodeRead
  \/ GeocodeResample
  \/ GeocodeUpdate
  \/ GeocodeWrite

Spec == Init /\ [][Next]_vars


(***************************************************************************)
(* update_attribute on its own: Init draws the metadata, the output shape, *)
(* the bounding box and the answer of ut.radar2glob; the one action calls  *)
(* the function.  world.length and world.width are the last two dimensions *)
(* of world.outShape.                                                      *)
(***************************************************************************)
RefKeys == {"REF_Y", "REF_X", "REF_LAT", "REF_LON"}

RefValue(key) ==
  CASE key = "REF_Y"   -> PyStr(<<"1">>)
    [] key = "REF_X"   -> PyStr(<<"2">>)
    [] key = "REF_LAT" -> PyStr(<<"0", ".", "5">>)
    [] key = "REF_LON" -> PyStr(<<"-", "0", ".", "5">>)

BaseAtr == [LENGTH |-> PyStr(<<"3">>), WIDTH |-> PyStr(<<"4">>)]

\* the metadata readfile.read can answer: the reference fields in any
\* combination (REF_X only beside REF_Y), and one whose REF_Y is no integer
AtrInputs ==
  {[key \in refs |-> RefValue(key)] @@ BaseAtr :
     refs \in {r \in SUBSET RefKeys : "REF_X" \in r => "REF_Y" \in r}}
    \cup {[REF_Y |-> PyStr(<<"1", ".", "0">>), REF_X |-> PyStr(<<"2">>)]
            @@ BaseAtr}

Lats == {Deg(n) : n \in (-MaxDeg)..MaxDeg}

Lons == {Deg(0), Deg(1)}

\* S N W E, in any order of S and N and of W and E
Boxes == {PyTuple(<<s, n, w, e>>) : s \in Lats, n \in Lats, w \in Lons, e \in Lons}

\* what ut.radar2glob answers: half degrees, or NaN out of coverage
GlobLats == {Half(n) : n \in (-2 * MaxDeg)..(2 * MaxDeg)} \cup {NaN}

GlobLons == {Half(0), Half(1), Half(2), NaN}

InitAttr ==
  /\ pc = "call update_attribute"
  /\ \E atr_in \in AtrInputs, box \in Boxes, length \in 1..MaxDim,
        width \in 1..MaxDim, threeD \in BOOLEAN,
        lat \in GlobLats, lon \in GlobLons :
       world = [atr_in   |-> atr_in,
                SNWE     |-> box,
                length   |-> length,
                width    |-> width,
                outShape |-> IF threeD THEN <<MaxDim + 1, length, width>>
                             ELSE <<length, width>>,
                glob     |-> <<lat, lon>>]
  /\ inps = <<>>
  /\ res_obj = None
  /\ k = 0
  /\ cur = NoFile
  /\ trace = <<>>
  /\ raised = "None"

\* line 184: atr = update_attribute(atr, inps)
CallUpdateAttribute ==
  /\ pc = "call update_attribute"
  /\ LET r == update_attribute(world.atr_in, world.outShape, world.SNWE,
                               world.glob)
     IN  /\ cur' = [cur EXCEPT !.atr = r.atr]
         /\ raised' = r.raised
         /\ pc' = IF r.raised # "None" THEN "update_attribute raised"
                  ELSE "update_attribute returned"
  /\ UNCHANGED <<world, inps, res_obj, k, trace>>

NextAttr == CallUpdateAttribute

SpecAttr == InitAttr /\ [][NextAttr]_vars


(***************************************************************************)
(* Properties of update_attribute, under SpecAttr.                         *)
(***************************************************************************)
Returned == pc = "update_attribute returned"

BoxS == world.SNWE.items[1]

BoxN == world.SNWE.items[2]

BoxW == world.SNWE.items[3]

BoxE == world.SNWE.items[4]

HasReference == "REF_Y" \in DOMAIN world.atr_in

InCoverage == ~isnan(world.glob[1]) /\ ~isnan(world.glob[2])

C3_ReferenceRemoved ==
  (Returned /\ HasReference /\ ~InCoverage) =>
    (DOMAIN cur.atr) \cap RefKeys = {}

\* the exact quotient (ref - first) / step of the returned grid
Quotient(ref, first, step) == TrueDiv(Sub(ref, cur.atr[first]), cur.atr[step])

\* n is an integer nearest to the finite float q
Nearest(n, q) == 2 * Abs(n * q.den - q.num) <= q.den

\* C4: with a reference pixel mapped in coverage, REF_LAT and REF_LON are the
\* mapped latitude and longitude and REF_Y, REF_X are (lat - Y_FIRST) / Y_STEP
\* and (lon - X_FIRST) / X_STEP rounded to the nearest integer; without
\* REF_Y in the input no reference field is added or changed
C4_ReferenceUpdated ==
  /\ (Returned /\ HasReference /\ InCoverage) =>
       /\ cur.atr["REF_LAT"].ty = "str"
       /\ cur.atr["REF_LON"].ty = "str"
       /\ ParseFloat(cur.atr["REF_LAT"].txt) = world.glob[1]
       /\ ParseFloat(cur.atr["REF_LON"].txt) = world.glob[2]
       /\ ParseInt(cur.atr["REF_Y"].txt) # ValueError
       /\ ParseInt(cur.atr["REF_X"].txt) # ValueError
       /\ Nearest(ParseInt(cur.atr["REF_Y"].txt).num,
                  Quotient(world.glob[1], "Y_FIRST", "Y_STEP"))
       /\ Nearest(ParseInt(cur.atr["REF_X"].txt).num,
                  Quotient(world.glob[2], "X_FIRST", "X_STEP"))
  /\ (pc # "call update_attribute" /\ ~HasReference) =>
       /\ Returned
       /\ \A key \in RefKeys :
            /\ key \in DOMAIN cur.atr <=> key \in DOMAIN world.atr_in
            /\ key \in DOMAIN cur.atr => cur.atr[key] = world.atr_in[key]

\* a reference pixel in coverage whose quotients fall between two pixels
C4_Witness ==
  /\ Returned /\ HasReference /\ InCoverage
  /\ Quotient(world.glob[1], "Y_FIRST", "Y_STEP").den = 2
  /\ Quotient(world.glob[2], "X_FIRST", "X_STEP").den = 2
  /\ ParseInt(cur.atr["REF_Y"].txt).num # 0

\* C10 as claimed: REF_Y and REF_X of the returned metadata index a pixel of
\* the output grid
C10_ReferenceInGrid ==
  (Returned /\ HasReference /\ InCoverage) =>
    /\ 0 <= ParseInt(cur.atr["REF_Y"].txt).num
    /\ ParseInt(cur.atr["REF_Y"].txt).num < world.length
    /\ 0 <= ParseInt(cur.atr["REF_X"].txt).num
    /\ ParseInt(cur.atr["REF_X"].txt).num < world.width


(***************************************************************************)
(* Properties of a run of main, under Spec.                                *)
(***************************************************************************)
\* the places in trace of the calls of one collaborator
Calls(op) == {j \in 1..Len(trace) : trace[j].op = op}

IsFileStep(e) ==
  e.op \in {"read", "resample_data", "update_attribute", "write"}

\* the steps of geocode_file in trace, in order
FileSteps == SelectSeq(trace, IsFileStep)

FileStepOrder == <<"read", "resample_data", "update_attribute", "write">>

ParseOk == parse_args(world.cmdline).exit = "None"

ArgumentsFail == ~Truthy(world.found) \/ ~Truthy(world.lookup)

\* C1: with no input file or no lookup table the process ends with an error,
\* no resampler is constructed, no file is read, resampled or written, and
\* the input files are checked before the lookup table
C1_ExitOnMissingFiles ==
  (pc # "cmd_line_parse" /\ ArgumentsFail) =>
    /\ pc = "exit"
    /\ raised # "None"
    /\ res_obj = None
    /\ \A j \in 1..Len(trace) :
         trace[j].op \in {"get_file_list", "get_lookup_file"}
    /\ (ParseOk /\ ~Truthy(world.found)) =>
         /\ raised = NoInputFile
         /\ Calls("get_lookup_file") = {}
    /\ (ParseOk /\ Truthy(world.found)) =>
         /\ raised = NoLookupTable
         /\ trace = <<[op |-> "get_file_list"], [op |-> "get_lookup_file"]>>

\* a run that finds neither input file nor lookup table
C1_Witness ==
  /\ pc = "exit"
  /\ ~Truthy(world.found)
  /\ ~Truthy(world.lookup)
  /\ raised = NoInputFile

\* the output n-th input file is to be written to: the n-th name of -o when
\* there is one, else the input's name prefixed with geo_
WantedOutput(n, infile) ==
  IF Truthy(inps["outfile"]) /\ n <= Len(inps["outfile"].items)
  THEN inps["outfile"].items[n]
  ELSE GeoName(infile)

\* C6 as claimed: an input for which -o names an output is written to that
\* name, and to geo_<name> only when no output name is given
C6_OutputOptionHonoured ==
  \A j \in Calls("write") :
    trace[j].outfile =
      WantedOutput(Cardinality({h \in Calls("write") : h <= j}), trace[j].infile)

\* the lat/lon step the options give: the pair when both are set, else None
WantedLaloStep ==
  IF inps["latStep"] # None /\ inps["lonStep"] # None
  THEN PyList(<<inps["latStep"], inps["lonStep"]>>)
  ELSE None

\* C7 as claimed: after cmd_line_parse and after read_template2inps laloStep
\* is [latStep, lonStep] or None, and the resampler is constructed with it
C7_LaloStepHandedOver ==
  /\ pc \in {"read_template2inps", "resample", "get_geometry_definition"} =>
       inps["laloStep"] = WantedLaloStep
  /\ pc = "get_geometry_definition" =>
       res_obj.of.laloStep = inps["laloStep"]

\* C8: the template is merged first, the resampler is constructed and the
\* geometry computed once, from the first input file, and then the input
\* files are read, resampled, updated and written one after the other in
\* the order of the list, one output each, all with the same geometry
C8_PipelineOrder ==
  pc \notin {"cmd_line_parse", "exit"} =>
    LET files == inps["file"].items
        steps == FileSteps
    IN  /\ Cardinality(Calls("read_template")) <= 1
        /\ Cardinality(Calls("resample")) <= 1
        /\ Cardinality(Calls("get_geometry_definition")) <= 1
        /\ \A t \in Calls("read_template"), r \in Calls("resample") : t < r
        /\ \A r \in Calls("resample") :
             /\ trace[r].args.dataFile = files[1]
             /\ Truthy(inps["templateFile"]) => Calls("read_template") # {}
        /\ \A g \in Calls("get_geometry_definition") :
             \E r \in Calls("resample") : r < g
        /\ \A j \in 1..Len(trace) :
             IsFileStep(trace[j]) =>
               \E g \in Calls("get_geometry_definition") : g < j
        /\ Len(steps) <= 4 * Len(files)
        /\ \A j \in 1..Len(steps) :
             /\ steps[j].op = FileStepOrder[((j - 1) % 4) + 1]
             /\ steps[j].infile = files[((j - 1) \div 4) + 1]
        /\ \A j \in Calls("resample_data") :
             /\ trace[j].src_def = Object(world.geometry.src_def)
             /\ trace[j].dest_def = Object(world.geometry.dest_def)
        /\ \A j \in Calls("update_attribute") :
             trace[j].SNWE = world.geometry.SNWE
        /\ pc = "done" =>
             /\ Len(steps) = 4 * Len(files)
             /\ Cardinality(Calls("write")) = Len(files)
             /\ Cardinality(Calls("resample")) = 1
             /\ Cardinality(Calls("get_geometry_definition")) = 1

\* a finished run over two different files, with a template
C8_Witness ==
  /\ pc = "done"
  /\ Len(inps["file"].items) = MaxFiles
  /\ inps["file"].items[1] # inps["file"].items[2]
  /\ Calls("read_template") # {}

TemplateSetsInterp ==
  /\ "templateFile" \in DOMAIN world.cmdline
  /\ TemplateSets("interpMethod", world.template)

\* C9 as claimed: the interpolation method handed to the resampler is
\* 'nearest' or 'bilinear', and 'nearest' when nothing sets it
C9_InterpMethodIsAChoice ==
  \A j \in Calls("resample_data") :
    /\ trace[j].interpMethod \in InterpChoices
    /\ ("interpMethod" \notin DOMAIN world.cmdline /\ ~TemplateSetsInterp)
         => trace[j].interpMethod = PyStr(NEAREST)


(***************************************************************************)
(* read_template2inps on its own: Init draws the options the command line  *)
(* gave and the template; the one action calls the function.  Each value   *)
(* a template can give an option is listed with what it means: the value   *)
(* the option is to take, or ValueError for a value that is no number.     *)
(***************************************************************************)
Absent == [ty |-> "absent"]

Means(txt, val) == [value |-> PyStr(txt), means |-> val]

TemplateChoices(opt) ==
  CASE opt = "SNWE" ->
         {[value |-> Absent], [value |-> None],
          Means(<<"0", ",", "1", ",", "0", ",", "1">>,
                PyTuple(<<Deg(0), Deg(1), Deg(0), Deg(1)>>)),
          Means(<<"-", "1", ".", "5", ",", " ", "0", ".", "5", ",",
                  "-", "9", "2", ",", "-", "9", "1">>,
                PyTuple(<<PyFloat(-3, 2), Half(1), Deg(-92), Deg(-91)>>)),
          Means(<<"n", "o">>, ValueError)}
    [] opt = "latStep" ->
         {[value |-> Absent], [value |-> PyStr(<<>>)],
          Means(<<"0", ".", "2">>, PyFloat(1, 5)),
          Means(<<"a", "b", "c">>, ValueError)}
    [] opt = "lonStep" ->
         {[value |-> Absent], [value |-> None],
          Means(<<".", "1">>, PyFloat(1, 10))}
    [] opt = "interpMethod" ->
         {[value |-> Absent], [value |-> PyStr(<<>>)],
          Means(BILINEAR, PyStr(BILINEAR)),
          Means(<<"c", "u", "b">>, PyStr(<<"c", "u", "b">>))}
    [] opt = "fillValue" ->
         {[value |-> Absent], [value |-> PyStr(<<>>)],
          Means(<<"n", "p", ".", "n", "a", "n">>, NaN),
          Means(<<"n", "p", ".", "N", "a", "N">>, NaN),
          Means(<<"0">>, Deg(0)),
          Means(<<"-", "1", ".", "5">>, PyFloat(-3, 2))}
    [] opt = "file" ->
         {[value |-> Absent], Means(<<"x">>, Absent)}

TemplateOptions == {"SNWE", "latStep", "lonStep", "interpMethod", "fillValue"}

OtherOptions == {"file", "lookupFile", "templateFile", "outfile"}

\* the options a command line of the model gives before the template is read
TemplateCmdDests == {"SNWE", "latStep", "lonStep", "fillValue"}

TemplateCmdValue(dest) ==
  IF dest = "fillValue" THEN Deg(0) ELSE CmdValue(dest)

\* the template dict of a choice per key: the keys that are not absent
TemplateOf(choice) ==
  LET keys == {opt \in DOMAIN choice : choice[opt].value # Absent}
  IN  [key \in {TemplatePrefix \o opt : opt \in keys} |->
         choice[CHOOSE opt \in keys : TemplatePrefix \o opt = key].value]

InitTemplate ==
  /\ pc = "call read_template2inps"
  /\ \E given \in SUBSET TemplateCmdDests,
        snwe \in TemplateChoices("SNWE"), lat \in TemplateChoices("latStep"),
        lon \in TemplateChoices("lonStep"),
        interp \in TemplateChoices("interpMethod"),
        fill \in TemplateChoices("fillValue"), file \in TemplateChoices("file") :
       LET choice == [SNWE |-> snwe, latStep |-> lat, lonStep |-> lon,
                      interpMethod |-> interp, fillValue |-> fill, file |-> file]
       IN
       /\ world = [cmdline  |-> [d \in given |-> TemplateCmdValue(d)]
                                  @@ [templateFile |-> TemplateFile],
                   choice   |-> choice,
                   template |-> TemplateOf(choice)]
       /\ inps = cmd_line_parse([d \in given |-> TemplateCmdValue(d)]
                                  @@ [templateFile |-> TemplateFile],
                                PyList(<<PyPath(<<"velocity.h5">>)>>),
                                LookupFile).inps
  /\ res_obj = None
  /\ k = 0
  /\ cur = [NoFile EXCEPT !.atr = inps]
  /\ trace = <<>>
  /\ raised = "None"

\* line 198: inps = read_template2inps(inps.templateFile, inps)
CallReadTemplate ==
  /\ pc = "call read_template2inps"
  /\ LET r == read_template2inps(world.template, inps)
     IN  /\ inps' = r.inps
         /\ raised' = r.raised
         /\ pc' = IF r.raised # "None" THEN "read_template2inps raised"
                  ELSE "read_template2inps returned"
  /\ UNCHANGED <<world, res_obj, k, cur, trace>>

NextTemplate == CallReadTemplate

SpecTemplate == InitTemplate /\ [][NextTemplate]_vars

(***************************************************************************)
(* Properties of read_template2inps, under SpecTemplate.  cur.atr keeps    *)
(* the options as they were before the call.                               *)
(***************************************************************************)
Sets(opt) == "means" \in DOMAIN world.choice[opt]

Malformed(opt) == Sets(opt) /\ world.choice[opt].means = ValueError

\* C5: each of SNWE, latStep, lonStep, interpMethod, fillValue becomes the
\* template's value coerced when the template has a non-empty value for it
\* and keeps its command-line value otherwise; file, lookupFile,
\* templateFile and outfile are left unchanged
C5_TemplateMerged ==
  /\ pc = "read_template2inps raised" => \E opt \in TemplateOptions : Malformed(opt)
  /\ pc = "read_template2inps returned" =>
       /\ \A opt \in TemplateOptions :
            inps[opt] = IF Sets(opt) THEN world.choice[opt].means
                        ELSE cur.atr[opt]
       /\ \A opt \in OtherOptions : inps[opt] = cur.atr[opt]

\* a template that overrides the command line's SNWE, steps and fill value,
\* the fill value written with capitals, and that has a key for file
C5_Witness ==
  /\ pc = "read_template2inps returned"
  /\ \A opt \in TemplateOptions : Sets(opt)
  /\ \A opt \in TemplateCmdDests : inps[opt] # cur.atr[opt] /\ cur.atr[opt] # None
  /\ world.choice["fillValue"].value = PyStr(<<"n", "p", ".", "N", "a", "N">>)
  /\ Sets("file")

=============================================================================
